---- MODULE Spec2Model ----
(***************************************************************************)
(* Model of SQLiteRepository (src/src/lib/repository.ts, the class at      *)
(* lines 318-636): the engine handle, the self-write guard, the database   *)
(* file, and the asynchronous operations start / query / mutate / save /   *)
(* initDb / loadDb / reloadDb / handleFileChange.                          *)
(*                                                                         *)
(* JavaScript runs one task at a time.  A task gives up control only at an *)
(* await of host I/O or of the engine runtime bootstrap (initSqlJs,        *)
(* readBinary, createFolder, writeBinary), so every action below is the    *)
(* code that runs between two such awaits.  An await of an async method of *)
(* the class itself resumes in the same microtask drain and is not an      *)
(* interleaving point for host events.  The effect of a file read or write *)
(* on the disk and the resumption of the awaiting task are separate steps. *)
(***************************************************************************)
EXTENDS Integers, Sequences, FiniteSets, TLC

\* ---- bounds ----
MaxRow == 1        \* row ids 1..MaxRow of the one modelled table
MaxCalls == 2      \* caller-issued query / mutate calls
MaxExt == 1        \* external modifications or deletions of the file
MaxNotes == 2      \* change notifications handled
MaxFaults == 1     \* injected failures (bootstrap, DDL, export, I/O)
MaxCallers == 1    \* caller contexts that may have a mutate in flight
MaxHandlers == 2   \* handleFileChange invocations that may be in flight
MaxBuild == 6      \* condition-builder calls on one statement
MaxReuse == 1      \* of them, calls not made on the object the call before returned
MaxInsRows == 2    \* row objects given to one INSERT
MaxParams == 2     \* bind parameters of one statement
MaxCols == 2       \* columns of one result set
MaxResRows == 2    \* rows of one result set
MaxItems == 3      \* review items (ids 1..MaxItems)
MaxFetch == 2      \* items one getDue returns at most (its limit)
MaxRequests == 3   \* runs of the review query function in one session
MaxOps == 1        \* review handlers awaiting the review manager at a time

RowIds == 1..MaxRow
Main == 0
Callers == 1..MaxCallers
\* Callers that do not await one mutate before calling the next: one more
\* caller context than the awaiting callers have.
Overlapping == 1..(MaxCallers + 1)
Handlers == {10 + i : i \in 1..MaxHandlers}
Tasks == {Main} \cup Overlapping \cup Handlers

\* ---- byte images and engines ----
\* An export that loses the table's rows.
Export_lossy(d) == [magic |-> "sqlite", schema |-> d.schema, rows |-> {}]
\* Database.export(): the engine's contents as a file image.
Export(d) == [magic |-> "sqlite", schema |-> d.schema, rows |-> d.rows]
\* new Database(bytes): a new engine instance holding the image's contents.
Import(b, id) == [id |-> id, schema |-> b.schema, rows |-> b.rows]
\* new Database(): a new, empty engine instance.
Fresh(id) == [id |-> id, schema |-> FALSE, rows |-> {}]
\* this.db before any assignment (undefined).
NoDb == [id |-> 0, schema |-> FALSE, rows |-> {}]
NoFile == [magic |-> "none", schema |-> FALSE, rows |-> {}]
Junk == [magic |-> "junk", schema |-> FALSE, rows |-> {}]
ValidImage(b) == b.magic = "sqlite"
\* What an engine holds, apart from which instance it is.
Contents(d) == [schema |-> d.schema, rows |-> d.rows]
\* Who wrote the file last: the host's initial file ("init"), another device
\* ("ext"), or a save, with the engine's contents at the time save was called.
InitBy == [kind |-> "init", pre |-> Contents(NoFile)]
ExtBy == [kind |-> "ext", pre |-> Contents(NoFile)]

Stmts == [sql : {"ins"}, row : RowIds] \cup [sql : {"sel", "del", "bad"}, row : {0}]

VARIABLES
  repo,        \* the SQLiteRepository object: db, isSaving (#isSaving), sql (#sql is set);
               \* made: engines constructed so far; seen: notifications for the database
               \* path handled since a save last set the guard (-1 before any save);
               \* setter: the call whose save set the guard last; boots: engine
               \* runtime bootstraps (initSqlJs) completed so far; ddl: executions
               \* of the schema DDL so far; ddlBy: the calls that executed it
  registered,  \* the 'modify' listener is registered
  returned,    \* start has returned the repository to its caller
  disk,        \* the vault: data folder present, database file bytes, who wrote them
  tasks,       \* the suspended asynchronous calls
  notes,       \* change notifications the host has not delivered yet, by cause
  calls, exts, handled, faults,  \* budget counters
  ev,          \* what the last step did
  qb,          \* one statement under construction by the condition builder (Query.ts)
  ins,         \* one INSERT statement: declared columns, rows, built query
  app,         \* one application of coerceParams or formatResult: argument, result
  rv           \* one review session (ReviewContext.tsx): seenIds and currentItem of
               \* the review view, the runs of the query function, the handlers

repoVars == <<repo, registered, returned, disk, tasks, notes, calls, exts, handled, faults, ev>>
\* the variables that the repository's operations leave alone
auxVars == <<qb, ins, app, rv>>
vars == <<repoVars, auxVars>>

Idle == [root |-> "none", pc |-> "idle", inInit |-> FALSE, data |-> NoFile,
         idata |-> NoFile, buf |-> NoFile, ret |-> <<>>, post |-> NoFile,
         pre |-> Contents(NoFile), ipre |-> Contents(NoFile), bufBy |-> InitBy,
         nsave |-> 0, wrote |-> 0, quiet |-> TRUE, during |-> {}, ninit |-> 0]

NoEv == [a |-> "init", t |-> -1, done |-> "none", root |-> "none",
         cause |-> "none", sfail |-> "none", slogged |-> FALSE, sraised |-> FALSE,
         ret |-> <<>>, err |-> FALSE, empty |-> FALSE, nsave |-> 0, wrote |-> 0,
         quiet |-> TRUE, reg |-> FALSE, note |-> "none", reload |-> "none",
         pre |-> NoFile, from |-> NoFile, fromBy |-> InitBy,
         added |-> {}, del |-> FALSE, during |-> {}]

\* ---- results of a synchronous segment ----
NoOut == [done |-> "none", cause |-> "none", sfail |-> "none", slogged |-> FALSE,
          sraised |-> FALSE, reg |-> FALSE, reload |-> "none"]

suspend(rp, t) == [repo |-> rp, t |-> t, out |-> NoOut]

\* The call at the root of the task settles: mutate returns or raises;
\* handleFileChange returns; start returns the repository after registering
\* the listener, or throws.
finish(rp, t, done, cause) ==
  [repo |-> rp, t |-> t,
   out |-> [NoOut EXCEPT !.done = done, !.cause = cause,
                         !.reg = (done = "ok" /\ t.root \in {"startInit", "startLoad"})]]

dbExists(dk) == dk.folder /\ dk.file # NoFile

\* save, from the folder check on: await createFolder or issue writeBinary.
saveFolder(rp, dk, t) ==
  suspend(rp, [t EXCEPT !.pc = IF dk.folder THEN "write" ELSE "mkdir"])

\* initDb has returned (the engine or null); its caller goes on: start
\* registers the listener and returns, save goes on to its folder check.
initDbReturn(rp, dk, t, cause) ==
  IF t.root = "startInit"
    THEN finish(rp, t, "ok", cause)
    ELSE saveFolder(rp, dk, [t EXCEPT !.inInit = FALSE])

\* save raises: the creating save's error is caught by initDb; the error of
\* mutate's save reaches mutate's caller; the error of updateSchema's save
\* is caught by loadDb, which returns null, and start throws.
saveThrow(rp, dk, t, cause, logged) ==
  LET r == IF t.inInit THEN initDbReturn(rp, dk, t, cause)
           ELSE finish(rp, t, "raised", cause)
  IN [r EXCEPT !.out.sfail = cause, !.out.slogged = logged, !.out.sraised = TRUE]

\* The promise returned by writeBinary has resolved.
saveDone(rp, dk, t) ==
  IF t.inInit THEN initDbReturn(rp, dk, t, "none")
             ELSE finish(rp, t, "ok", "none")

\* A save that does not set the self-write guard.
save_noGuard(rp, dk, t, creating, f) ==
  LET t1 == [t EXCEPT !.nsave = IF creating THEN @ ELSE @ + 1] IN
  IF rp.db.id = 0
    THEN saveThrow(rp, dk, t1, "nodb", FALSE)
    ELSE LET rp1 == [rp EXCEPT !.seen = 0, !.setter = t.root] IN
         IF f = "export"
           THEN saveThrow(rp1, dk, t1, "export", TRUE)
           ELSE LET data == Export(rp.db) IN
                IF ~creating /\ ~dbExists(dk)
                  THEN suspend(rp1, [t1 EXCEPT !.data = data, !.pre = Contents(rp.db),
                                               !.inInit = TRUE, !.pc = "wasm",
                                               !.ninit = @ + 1])
                  ELSE saveFolder(rp1, dk,
                         IF creating THEN [t1 EXCEPT !.idata = data, !.ipre = Contents(rp.db)]
                                     ELSE [t1 EXCEPT !.data = data, !.pre = Contents(rp.db)])

\* A save whose creating variant checks the file's existence too.
save_alwaysChecks(rp, dk, t, creating, f) ==
  LET t1 == [t EXCEPT !.nsave = IF creating THEN @ ELSE @ + 1] IN
  IF rp.db.id = 0
    THEN saveThrow(rp, dk, t1, "nodb", FALSE)
    ELSE LET rp1 == [rp EXCEPT !.isSaving = TRUE, !.seen = 0, !.setter = t.root] IN
         IF f = "export"
           THEN saveThrow(rp1, dk, t1, "export", TRUE)
           ELSE LET data == Export(rp.db) IN
                IF ~dbExists(dk)
                  THEN suspend(rp1, [t1 EXCEPT !.data = data, !.pre = Contents(rp.db),
                                               !.inInit = TRUE, !.pc = "wasm",
                                               !.ninit = IF @ < 3 THEN @ + 1 ELSE @])
                  ELSE saveFolder(rp1, dk,
                         IF creating THEN [t1 EXCEPT !.idata = data, !.ipre = Contents(rp.db)]
                                     ELSE [t1 EXCEPT !.data = data, !.pre = Contents(rp.db)])

\* save(creating) up to its first await.  f = "export" makes db.export() throw.
save(rp, dk, t, creating, f) ==
  LET t1 == [t EXCEPT !.nsave = IF creating THEN @ ELSE @ + 1] IN
  IF rp.db.id = 0
    THEN saveThrow(rp, dk, t1, "nodb", FALSE)
    ELSE LET rp1 == [rp EXCEPT !.isSaving = TRUE, !.seen = 0, !.setter = t.root] IN
         IF f = "export"
           THEN saveThrow(rp1, dk, t1, "export", TRUE)
           ELSE LET data == Export(rp.db) IN
                IF ~creating /\ ~dbExists(dk)
                  THEN suspend(rp1, [t1 EXCEPT !.data = data, !.pre = Contents(rp.db),
                                               !.inInit = TRUE, !.pc = "wasm",
                                               !.ninit = @ + 1])
                  ELSE saveFolder(rp1, dk,
                         IF creating THEN [t1 EXCEPT !.idata = data, !.ipre = Contents(rp.db)]
                                     ELSE [t1 EXCEPT !.data = data, !.pre = Contents(rp.db)])

\* initDb after loadWasm has settled: new engine, schema DDL, save(true).
initDb(rp, dk, t, f) ==
  IF f = "wasm"
    THEN initDbReturn(rp, dk, t, "wasm")
    ELSE LET rp1 == [rp EXCEPT !.db = Fresh(rp.made + 1), !.made = @ + 1,
                               !.ddl = @ + 1, !.ddlBy = @ \cup {t.root}] IN
         IF f = "schema"
           THEN initDbReturn(rp1, dk, t, "schema")
           ELSE save([rp1 EXCEPT !.db.schema = TRUE], dk, t, TRUE, f)

\* reloadDb up to its first await: the bootstrap unless #sql is cached, then the read.
reloadDb(rp, t) ==
  suspend(rp, [t EXCEPT !.pc = IF rp.sql THEN "read" ELSE "wasm"])

\* A start that does not check loadDb's result.
reloadFail_ignored(rp, t, cause) ==
  [finish(rp, t, "ok", cause) EXCEPT !.out.reload = "failed"]

\* reloadDb returned null: handleFileChange returns; loadDb returns null and start throws.
reloadFail(rp, t, cause) ==
  LET r == IF t.root = "handler" THEN finish(rp, t, "ok", cause)
                                 ELSE finish(rp, t, "raised", cause)
  IN [r EXCEPT !.out.reload = "failed"]

\* updateSchema: schema DDL on the loaded engine, then save().
updateSchema(rp, dk, t, f) ==
  LET rp1 == [rp EXCEPT !.ddl = @ + 1, !.ddlBy = @ \cup {t.root}] IN
  IF f = "schema"
    THEN finish(rp1, t, "raised", "schema")
    ELSE save([rp1 EXCEPT !.db.schema = TRUE], dk, t, FALSE, f)

\* A reloadDb that drops the engine before it builds the new one.
reloadDbRead_dropsEngine(rp, dk, t, f) ==
  IF ~ValidImage(t.buf)
    THEN reloadFail([rp EXCEPT !.db = NoDb], t, IF t.buf = NoFile THEN "read" ELSE "corrupt")
    ELSE LET rp1 == [rp EXCEPT !.db = Import(t.buf, rp.made + 1), !.made = @ + 1]
             r == IF t.root = "handler" THEN finish(rp1, t, "ok", "none")
                                        ELSE updateSchema(rp1, dk, t, f)
         IN [r EXCEPT !.out.reload = "done"]

\* reloadDb after readBinary has settled with t.buf; then its caller:
\* handleFileChange returns, loadDb calls updateSchema.
reloadDbRead(rp, dk, t, f) ==
  IF ~ValidImage(t.buf)
    THEN reloadFail(rp, t, IF t.buf = NoFile THEN "read" ELSE "corrupt")
    ELSE LET rp1 == [rp EXCEPT !.db = Import(t.buf, rp.made + 1), !.made = @ + 1]
             r == IF t.root = "handler" THEN finish(rp1, t, "ok", "none")
                                        ELSE updateSchema(rp1, dk, t, f)
         IN [r EXCEPT !.out.reload = "done"]

\* ---- the engine ----
RECURSIVE SortedSeq(_)
SortedSeq(S) ==
  IF S = {} THEN <<>>
  ELSE LET m == CHOOSE x \in S : \A y \in S : x <= y
       IN <<m>> \o SortedSeq(S \ {m})

\* Database.exec: the engine after the statement, its result sets, or an error.
exec(d, s) ==
  CASE s.sql = "bad" -> [db |-> d, results |-> <<>>, err |-> TRUE]
    [] ~d.schema -> [db |-> d, results |-> <<>>, err |-> TRUE]
    [] s.sql = "ins" ->
         IF s.row \in d.rows THEN [db |-> d, results |-> <<>>, err |-> TRUE]
         ELSE [db |-> [d EXCEPT !.rows = @ \cup {s.row}], results |-> <<>>, err |-> FALSE]
    [] s.sql = "del" -> [db |-> [d EXCEPT !.rows = {}], results |-> <<>>, err |-> FALSE]
    [] OTHER ->
         [db |-> d, err |-> FALSE,
          results |-> IF d.rows = {} THEN <<>>
                      ELSE << [columns |-> <<"id">>,
                               values |-> [i \in 1..Cardinality(d.rows) |-> <<SortedSeq(d.rows)[i]>>]] >>]

\* Object.assign(acc, {[key]: cell})
assign(acc, key, cell) ==
  [c \in DOMAIN acc \cup {key} |-> IF c = key THEN cell ELSE acc[c]]

\* row.reduce((acc, cell, i) => Object.assign(acc, {[columns[i]]: cell}), {}), from cell i on.
RECURSIVE reduce(_, _, _, _)
reduce(row, columns, i, acc) ==
  IF i > Len(row) THEN acc
  ELSE reduce(row, columns, i + 1, assign(acc, columns[i], row[i]))

\* A formatResult in which the first column of a name keeps its value.
formatResult_firstWins(result) ==
  [i \in 1..Len(result.values) |->
     LET row == result.values[i] IN
     [c \in {result.columns[j] : j \in 1..Len(row)} |->
        row[CHOOSE j \in 1..Len(row) :
              /\ result.columns[j] = c
              /\ \A k \in 1..Len(row) : result.columns[k] = c => j <= k]]]

\* formatResult: values.map(row => row.reduce(...)).
formatResult(result) ==
  [i \in 1..Len(result.values) |-> reduce(result.values[i], result.columns, 1, <<>>)]

\* ---- value coercion ----
\* A JavaScript value: its typeof and its printed form.
Val(t, v) == [t |-> t, v |-> v]
Undefined == Val("undefined", "undefined")
JsNull == Val("object", "null")
\* Symbol.prototype.toString
SymbolToString(v) == "Symbol(" \o v \o ")"
\* The parameters the callers pass: booleans, undefined, a symbol, strings,
\* numbers, null.
ParamValues ==
  {Val("boolean", "true"), Val("boolean", "false"), Undefined, Val("symbol", "x"),
   Val("string", "x"), Val("string", "1"), Val("number", "1"), Val("number", "7"), JsNull}
ParamLists == UNION {[1..n -> ParamValues] : n \in 0..MaxParams}

\* A coercion without the case for undefined.
coerce_noUndefined(param) ==
  CASE param.t = "boolean" -> Val("number", IF param.v = "true" THEN "1" ELSE "0")
    [] param.t = "symbol" -> Val("string", SymbolToString(param.v))
    [] param.t \in {"string", "number", "object"} -> param
    [] OTHER -> Undefined

\* The callback of coerceParams: switch (typeof param), no default case.
coerce(param) ==
  CASE param.t = "boolean" -> Val("number", IF param.v = "true" THEN "1" ELSE "0")
    [] param.t = "symbol" -> Val("string", SymbolToString(param.v))
    [] param.t = "undefined" -> JsNull
    [] param.t \in {"string", "number", "object"} -> param
    [] OTHER -> Undefined

\* coerceParams: params.map(...)
coerceParams(params) == [i \in 1..Len(params) |-> coerce(params[i])]

NoCall == [fn |-> "none", args |-> <<>>, ret |-> <<>>, done |-> FALSE]

\* coerceParams(params) is called.
coerceParamsCall ==
  /\ app.fn = "coerceParams" /\ ~app.done
  /\ app' = [app EXCEPT !.ret = coerceParams(app.args), !.done = TRUE]
  /\ UNCHANGED <<repoVars, qb, ins, rv>>

\* The result sets the engine returns: every row as long as columns; two
\* columns may have the same name (SELECT a, a ...).
ColumnNames == {"a", "b"}
Cells == {1, 2}
Results ==
  UNION {[columns : [1..k -> ColumnNames],
          values : UNION {[1..n -> [1..k -> Cells]] : n \in 0..MaxResRows}] : k \in 1..MaxCols}

\* formatResult(result) is called.
formatResultCall ==
  /\ app.fn = "formatResult" /\ ~app.done
  /\ app' = [app EXCEPT !.ret = formatResult(app.args), !.done = TRUE]
  /\ UNCHANGED <<repoVars, qb, ins, rv>>

\* An execSql that hands the engine's error back as a row.
execSql_error(rp, s) ==
  IF rp.db.id = 0 \/ exec(rp.db, s).err
    THEN [repo |-> rp, ret |-> << << [error |-> TRUE] >> >>, err |-> TRUE, empty |-> FALSE]
    ELSE LET x == exec(rp.db, s) IN
         [repo |-> [rp EXCEPT !.db = x.db], err |-> FALSE, empty |-> Len(x.results) = 0,
          ret |-> << <<>> >>]

\* execSql: an engine error (also the TypeError of an undefined db) is caught
\* and [[]] is returned; so is [[]] when there are no result sets.
execSql(rp, s) ==
  IF rp.db.id = 0
    THEN [repo |-> rp, ret |-> << <<>> >>, err |-> TRUE, empty |-> FALSE]
    ELSE LET x == exec(rp.db, s) IN
         IF x.err THEN [repo |-> rp, ret |-> << <<>> >>, err |-> TRUE, empty |-> FALSE]
         ELSE IF Len(x.results) = 0
           THEN [repo |-> [rp EXCEPT !.db = x.db], ret |-> << <<>> >>, err |-> FALSE, empty |-> TRUE]
           ELSE [repo |-> [rp EXCEPT !.db = x.db], err |-> FALSE, empty |-> FALSE,
                 ret |-> [i \in 1..Len(x.results) |-> formatResult(x.results[i])]]

\* ---- steps ----
\* Callers and handler invocations are interchangeable: a new call takes the
\* first free slot.
FirstIdle(S, x) ==
  tasks[x].pc = "idle" /\ \A y \in S : tasks[y].pc = "idle" => x <= y
FaultOk(f) == f = "none" \/ faults < MaxFaults
Spend(f) == faults' = IF f = "none" THEN faults ELSE faults + 1

\* The tasks after a step of self; a step between another task's call and
\* return is recorded in that task (quiet).
Others(self, t) ==
  [x \in Tasks |-> IF x = self THEN t
                   ELSE IF tasks[x].pc # "idle" THEN [tasks[x] EXCEPT !.quiet = FALSE]
                   ELSE tasks[x]]

\* The rows a statement has added to the engine, and whether it has emptied
\* the table, are recorded in the calls in flight at the time (during).
Marked(ts, self, added, del) ==
  [x \in Tasks |-> IF x = self \/ ts[x].pc = "idle" THEN ts[x]
                   ELSE [ts[x] EXCEPT !.during = IF del THEN {} ELSE @ \cup added]]

\* Commit the result r of a segment run by task self in action a.
Commit(a, self, r, e) ==
  /\ UNCHANGED auxVars
  /\ repo' = r.repo
  /\ registered' = (registered \/ r.out.reg)
  /\ returned' = (returned \/ r.out.reg)
  /\ tasks' = Marked(Others(self, IF r.out.done = "none" THEN r.t ELSE Idle),
                     self, e.added, e.del)
  /\ ev' = [e EXCEPT !.a = a, !.t = self, !.done = r.out.done, !.root = r.t.root,
                     !.cause = r.out.cause, !.sfail = r.out.sfail,
                     !.slogged = r.out.slogged, !.sraised = r.out.sraised,
                     !.ret = r.t.ret, !.nsave = r.t.nsave, !.wrote = r.t.wrote,
                     !.quiet = r.t.quiet, !.reg = r.out.reg, !.reload = r.out.reload,
                     !.pre = r.t.post, !.during = r.t.during]

\* SQLiteRepository.start up to its first await.
start ==
  /\ tasks[Main].pc = "idle" /\ ~returned /\ ev.a = "init"
  /\ LET t == IF dbExists(disk) THEN [Idle EXCEPT !.root = "startLoad"]
                                ELSE [Idle EXCEPT !.root = "startInit", !.inInit = TRUE]
         r == IF dbExists(disk) THEN reloadDb(repo, t)
                                ELSE suspend(repo, [t EXCEPT !.pc = "wasm"])
     IN Commit("start", Main, r, NoEv)
  /\ UNCHANGED <<disk, notes, calls, exts, handled, faults>>

\* loadWasm settles (initSqlJs resolved or rejected) and the awaiting code runs on.
loadWasm(self) ==
  /\ tasks[self].pc = "wasm"
  /\ \E f \in {"none", "wasm", "schema", "export"} :
       /\ FaultOk(f) /\ Spend(f)
       /\ LET t == tasks[self]
              rp == IF f = "wasm" THEN repo ELSE [repo EXCEPT !.boots = @ + 1]
              r == IF t.inInit THEN initDb(rp, disk, t, f)
                   ELSE IF f = "wasm" THEN reloadFail(rp, t, "wasm")
                   ELSE suspend([rp EXCEPT !.sql = TRUE], [t EXCEPT !.pc = "read"])
          IN /\ (f \in {"schema", "export"} => t.inInit)
             /\ Commit("loadWasm", self, r, NoEv)
  /\ UNCHANGED <<disk, notes, calls, exts, handled>>

\* The host reads the file for a pending readBinary (or the read fails).
readBinary(self) ==
  /\ tasks[self].pc = "read"
  /\ \E f \in {"none", "read"} :
       /\ FaultOk(f) /\ Spend(f)
       /\ tasks' = [tasks EXCEPT ![self].pc = "readDone",
                                 ![self].buf = IF f = "read" THEN NoFile ELSE disk.file,
                                 ![self].bufBy = disk.by]
  /\ ev' = [NoEv EXCEPT !.a = "readBinary", !.t = self]
  /\ UNCHANGED <<repo, registered, returned, disk, notes, calls, exts, handled, auxVars>>

\* readBinary has settled and reloadDb runs on.
reloadDbResume(self) ==
  /\ tasks[self].pc = "readDone"
  /\ \E f \in {"none", "schema", "export"} :
       /\ FaultOk(f) /\ Spend(f)
       /\ (f # "none" => tasks[self].root = "startLoad" /\ ValidImage(tasks[self].buf))
       /\ Commit("reloadDbResume", self, reloadDbRead(repo, disk, tasks[self], f),
                 [NoEv EXCEPT !.from = tasks[self].buf, !.fromBy = tasks[self].bufBy])
  /\ UNCHANGED <<disk, notes, calls, exts, handled>>

\* createFolder settles and save runs on to issue the write.
createFolder(self) ==
  /\ tasks[self].pc = "mkdir"
  /\ \E f \in {"none", "mkdir"} :
       /\ FaultOk(f) /\ Spend(f)
       /\ IF f = "mkdir"
            THEN /\ Commit("createFolder", self, saveThrow(repo, disk, tasks[self], "mkdir", TRUE), NoEv)
                 /\ disk' = disk
            ELSE /\ Commit("createFolder", self, suspend(repo, [tasks[self] EXCEPT !.pc = "write"]), NoEv)
                 /\ disk' = [disk EXCEPT !.folder = TRUE]
  /\ UNCHANGED <<notes, calls, exts, handled>>

\* The host writes the file for a pending writeBinary; it may or may not
\* produce a change notification for it.
writeBinary(self) ==
  /\ tasks[self].pc = "write"
  /\ LET t == tasks[self] IN
       /\ disk' = [disk EXCEPT !.file = IF t.inInit THEN t.idata ELSE t.data,
                                !.by = [kind |-> "save", pre |-> IF t.inInit THEN t.ipre ELSE t.pre]]
       /\ tasks' = [tasks EXCEPT ![self].pc = "writeDone", ![self].wrote = @ + 1]
  /\ \E echo \in BOOLEAN :
       notes' = IF echo THEN [notes EXCEPT !.self = @ + 1] ELSE notes
  /\ ev' = [NoEv EXCEPT !.a = "writeBinary", !.t = self]
  /\ UNCHANGED <<repo, registered, returned, calls, exts, handled, faults, auxVars>>

\* writeBinary rejects: the promise save returned (not awaited inside its
\* try block) rejects, so save's catch block does not run.
writeReject(self) ==
  /\ tasks[self].pc = "write"
  /\ FaultOk("write") /\ Spend("write")
  /\ Commit("writeReject", self, saveThrow(repo, disk, tasks[self], "write", FALSE), NoEv)
  /\ UNCHANGED <<disk, notes, calls, exts, handled>>

\* writeBinary has resolved and the code awaiting save runs on.
saveResume(self) ==
  /\ tasks[self].pc = "writeDone"
  /\ Commit("saveResume", self, saveDone(repo, disk, tasks[self]), NoEv)
  /\ UNCHANGED <<disk, notes, calls, exts, handled, faults>>

\* A query that persists like mutate.
query_saves(c, s) ==
  /\ returned /\ calls < MaxCalls /\ tasks[c].pc = "idle"
  /\ Commit("query", c, save(execSql(repo, s).repo, disk, [Idle EXCEPT !.root = "mutate"], FALSE, "none"), NoEv)
  /\ calls' = calls + 1
  /\ UNCHANGED <<disk, notes, exts, handled, faults>>

\* query: execSql, first result set.
query(c, s) ==
  /\ returned /\ calls < MaxCalls /\ FirstIdle(Overlapping, c)
  /\ LET x == execSql(repo, s) IN
       /\ repo' = x.repo
       /\ ev' = [NoEv EXCEPT !.a = "query", !.t = c, !.done = "ok", !.root = "query",
                             !.ret = x.ret[1], !.err = x.err, !.empty = x.empty]
  /\ calls' = calls + 1
  /\ tasks' = Marked(Others(c, tasks[c]), c, {}, s.sql = "del" /\ ~execSql(repo, s).err)
  /\ UNCHANGED <<registered, returned, disk, notes, exts, handled, faults, auxVars>>

\* A mutate that exports the image before running the statement.
mutate_saveFirst(c, s) ==
  /\ returned /\ calls < MaxCalls /\ tasks[c].pc = "idle"
  /\ LET x == execSql(repo, s)
         t == [Idle EXCEPT !.root = "mutate", !.ret = x.ret, !.post = Export(x.repo.db)]
         r == save(repo, disk, t, FALSE, "none")
     IN Commit("mutate", c, [r EXCEPT !.repo.db = x.repo.db],
               [NoEv EXCEPT !.err = x.err, !.empty = x.empty])
  /\ calls' = calls + 1
  /\ UNCHANGED <<disk, notes, exts, handled, faults>>

\* mutate: execSql, then save() up to its first await.
mutate(c, s) ==
  /\ returned /\ calls < MaxCalls /\ FirstIdle(Overlapping, c)
  /\ \E f \in {"none", "export"} :
       /\ FaultOk(f) /\ Spend(f)
       /\ (f = "export" => repo.db.id # 0)
       /\ LET x == execSql(repo, s)
              t == [Idle EXCEPT !.root = "mutate", !.ret = x.ret, !.post = Export(x.repo.db)]
          IN Commit("mutate", c, save(x.repo, disk, t, FALSE, f),
                    [NoEv EXCEPT !.err = x.err, !.empty = x.empty,
                                 !.added = IF s.sql = "ins" /\ ~x.err THEN {s.row} ELSE {},
                                 !.del = (s.sql = "del" /\ ~x.err)])
  /\ calls' = calls + 1
  /\ UNCHANGED <<disk, notes, exts, handled>>

\* handleFileChange, called by the host with a file (path, deleted).
DbPath == "db"

\* A handleFileChange without the check of the path and the deleted flag.
handleFileChange_anyFile(h, n) ==
  /\ registered /\ handled < MaxNotes /\ tasks[h].pc = "idle"
  /\ n.cause \in {"self", "ext"} => notes[n.cause] > 0 /\ n.path = DbPath /\ ~n.deleted
  /\ notes' = IF n.cause \in {"self", "ext"} THEN [notes EXCEPT ![n.cause] = @ - 1] ELSE notes
  /\ handled' = handled + 1
  /\ LET t == [Idle EXCEPT !.root = "handler"]
         e == [NoEv EXCEPT !.note = n.cause]
     IN IF repo.isSaving
          THEN Commit("handleFileChange", h,
                      [finish([repo EXCEPT !.isSaving = FALSE], t, "ok", "none")
                         EXCEPT !.out.reload = "skipped"], e)
          ELSE Commit("handleFileChange", h,
                      [reloadDb(repo, t) EXCEPT !.out.reload = "started"], e)
  /\ UNCHANGED <<disk, calls, exts, faults>>

handleFileChange(h, n) ==
  /\ registered /\ handled < MaxNotes /\ FirstIdle(Handlers, h)
  /\ n.cause \in {"self", "ext"} => notes[n.cause] > 0 /\ n.path = DbPath /\ ~n.deleted
  /\ notes' = IF n.cause \in {"self", "ext"} THEN [notes EXCEPT ![n.cause] = @ - 1] ELSE notes
  /\ handled' = handled + 1
  /\ LET t == [Idle EXCEPT !.root = "handler"]
         e == [NoEv EXCEPT !.note = n.cause]
     IN IF n.path # DbPath \/ n.deleted
          THEN Commit("handleFileChange", h, [finish(repo, t, "ok", "none") EXCEPT !.out.reload = "ignored"], e)
          ELSE LET rp == [repo EXCEPT !.seen = IF @ \in {0, 1} THEN @ + 1 ELSE @] IN
               IF repo.isSaving
                 THEN Commit("handleFileChange", h,
                             [finish([rp EXCEPT !.isSaving = FALSE], t, "ok", "none")
                                EXCEPT !.out.reload = "skipped"], e)
                 ELSE Commit("handleFileChange", h,
                             [reloadDb(rp, t) EXCEPT !.out.reload = "started"], e)
  /\ UNCHANGED <<disk, calls, exts, faults>>

Notifications ==
  [path : {DbPath}, deleted : {FALSE}, cause : {"self", "ext"}]
    \cup [path : {DbPath}, deleted : {TRUE}, cause : {"other"}]
    \cup [path : {"note.md"}, deleted : {FALSE}, cause : {"other"}]

\* ---- the environment ----
ExtImages == {[magic |-> "sqlite", schema |-> TRUE, rows |-> {1}], Junk}

\* Another device's sync replaces the file; the host may notify.
externalModify(b) ==
  /\ exts < MaxExt /\ ev.a # "init"
  /\ disk' = [folder |-> TRUE, file |-> b, by |-> ExtBy]
  /\ exts' = exts + 1
  /\ \E n \in BOOLEAN : notes' = IF n THEN [notes EXCEPT !.ext = @ + 1] ELSE notes
  /\ tasks' = Others(-1, Idle)
  /\ ev' = [NoEv EXCEPT !.a = "externalModify"]
  /\ UNCHANGED <<repo, registered, returned, calls, handled, faults, auxVars>>

\* The file is deleted from outside.
externalDelete ==
  /\ exts < MaxExt /\ ev.a # "init" /\ disk.file # NoFile
  /\ disk' = [disk EXCEPT !.file = NoFile]
  /\ exts' = exts + 1
  /\ tasks' = Others(-1, Idle)
  /\ ev' = [NoEv EXCEPT !.a = "externalDelete"]
  /\ UNCHANGED <<repo, registered, returned, notes, calls, handled, faults, auxVars>>

\* ---- the condition builder (Query.ts) ----
Columns == {"reference", "dismissed"}
\* Three of the seven comparators; all seven are the same
\* createComparatorCondition applied to another operator string.
Comparators == {"=", "<", "IN"}
CompareValues == {"test.md", "other.md"}

\* No conditions array (null).
Null == 0

\* A statement as its factory creates it: params = [], conditions = null.
\* arrs: the conditions arrays allocated so far; objs: the capability objects
\* returned so far, each with what its closures captured; last: the object
\* returned by the last call.  op, on, n, err: the last call, the object it
\* was made on, the length of params before it, the error it threw.  off:
\* the calls that were not made on the object the call before them returned
\* (a chain starting with where has none); hist: the comparator calls that
\* returned, in call order.
NewQuery ==
  [params |-> <<>>, arrs |-> <<>>, objs |-> <<>>, last |-> 0,
   op |-> "none", on |-> 0, n |-> 0, err |-> "none", wheres |-> 0,
   off |-> 0, hist |-> <<>>]

\* The object returned by createConditions (the comparators), by where call
\* number w of the statement if by where.
WhereConditions(column, conjunction, conditions, w) ==
  [kind |-> "comparators", col |-> column, conj |-> conjunction, arr |-> conditions, w |-> w]
\* The object returned by createCondition (and / or).
Combinators(conditions) ==
  [kind |-> "combinators", col |-> "", conj |-> "", arr |-> conditions, w |-> 0]

\* createConditions: the comparators, closed over column, conjunction,
\* params and conditions.
createConditions(q, column, conjunction, conditions, w) ==
  [q EXCEPT !.objs = Append(@, WhereConditions(column, conjunction, conditions, w)),
            !.last = Len(q.objs) + 1, !.err = "none"]

\* A createCondition that numbers placeholders from zero.
createCondition_fromZero(q, column, conjunction, conditions, comparator, compareValue) ==
  LET condition == [col |-> column, cmp |-> comparator, ph |-> Len(q.params)]
      pushed(qa, arr) ==
        [qa EXCEPT !.params = Append(@, compareValue),
                   !.objs = Append(@, Combinators(arr)),
                   !.last = Len(q.objs) + 1, !.err = "none"]
  IN IF conjunction = "WHERE"
       THEN IF conditions # Null THEN [q EXCEPT !.err = "where"]
            ELSE pushed([q EXCEPT !.arrs = Append(@, [first |-> condition, rest |-> <<>>])],
                          Len(q.arrs) + 1)
       ELSE IF conditions = Null THEN [q EXCEPT !.err = "andor"]
            ELSE pushed([q EXCEPT !.arrs[conditions].rest =
                                      Append(@, [conj |-> conjunction, cond |-> condition])],
                          conditions)

\* A createCondition that pushes the bind parameter before its checks.
createCondition_pushFirst(q, column, conjunction, conditions, comparator, compareValue) ==
  LET condition == [col |-> column, cmp |-> comparator, ph |-> Len(q.params) + 1]
      qp == [q EXCEPT !.params = Append(@, compareValue)]
      pushed(qa, arr) ==
        [qa EXCEPT !.objs = Append(@, Combinators(arr)),
                   !.last = Len(q.objs) + 1, !.err = "none"]
  IN IF conjunction = "WHERE"
       THEN IF conditions # Null THEN [qp EXCEPT !.err = "where"]
            ELSE pushed([qp EXCEPT !.arrs = Append(@, [first |-> condition, rest |-> <<>>])],
                          Len(q.arrs) + 1)
       ELSE IF conditions = Null THEN [qp EXCEPT !.err = "andor"]
            ELSE pushed([qp EXCEPT !.arrs[conditions].rest =
                                      Append(@, [conj |-> conjunction, cond |-> condition])],
                          conditions)

\* createCondition: the condition `column comparator $n` with n = params.length + 1;
\* WHERE throws if it was given a conditions array and else binds its own
\* parameter to a new array; AND / OR throw without an array and else push
\* onto the array they were given; then params.push(compareValue).
createCondition(q, column, conjunction, conditions, comparator, compareValue) ==
  LET condition == [col |-> column, cmp |-> comparator, ph |-> Len(q.params) + 1]
      pushed(qa, arr) ==
        [qa EXCEPT !.params = Append(@, compareValue),
                   !.objs = Append(@, Combinators(arr)),
                   !.last = Len(q.objs) + 1, !.err = "none"]
  IN IF conjunction = "WHERE"
       THEN IF conditions # Null THEN [q EXCEPT !.err = "where"]
            ELSE pushed([q EXCEPT !.arrs = Append(@, [first |-> condition, rest |-> <<>>])],
                          Len(q.arrs) + 1)
       ELSE IF conditions = Null THEN [q EXCEPT !.err = "andor"]
            ELSE pushed([q EXCEPT !.arrs[conditions].rest =
                                      Append(@, [conj |-> conjunction, cond |-> condition])],
                          conditions)

\* The conditions of an array in order, the first (untagged) one included.
Flat(a) == <<a.first>> \o [i \in 1..Len(a.rest) |-> a.rest[i].cond]

InChain(op, on) == IF op = "where" THEN qb.op = "none" ELSE on = qb.last /\ on # 0
CanCall(op, on) == Len(qb.objs) < MaxBuild /\ (InChain(op, on) \/ qb.off < MaxReuse)
Called(q, op, on) ==
  [q EXCEPT !.op = op, !.on = on, !.n = Len(qb.params),
            !.off = IF InChain(op, on) THEN qb.off ELSE qb.off + 1]

\* factory.where(column): createConditions(column, 'WHERE', params, conditions)
\* with the factory's conditions, which is null.
where(column) ==
  /\ CanCall("where", 0)
  /\ qb' = Called([createConditions(qb, column, "WHERE", Null, qb.wheres + 1)
                     EXCEPT !.wheres = @ + 1],
                  "where", 0)
  /\ UNCHANGED <<repoVars, ins, app, rv>>

\* One of eq / neq / lt / lte / gt / gte / in of the comparators object o.
compare(o, comparator, compareValue) ==
  /\ o <= Len(qb.objs) /\ CanCall("compare", o)
  /\ qb.objs[o].kind = "comparators"
  /\ LET c == qb.objs[o]
         q == createCondition(qb, c.col, c.conj, c.arr, comparator, compareValue)
     IN qb' = Called([q EXCEPT !.hist = IF q.err = "none"
                                          THEN Append(@, [col |-> c.col, cmp |-> comparator,
                                                          v |-> compareValue, n |-> Len(qb.params)])
                                          ELSE @],
                     "compare", o)
  /\ UNCHANGED <<repoVars, ins, app, rv>>

\* and(column) / or(column) of the combinators object o.
andOr(o, conjunction, column) ==
  /\ o <= Len(qb.objs) /\ CanCall("andOr", o)
  /\ qb.objs[o].kind = "combinators"
  /\ qb' = Called(createConditions(qb, column, conjunction, qb.objs[o].arr, 0), "andOr", o)
  /\ UNCHANGED <<repoVars, ins, app, rv>>

\* and / or before any condition exists: createConditions with AND / OR and
\* the factory's conditions (null).
andOrFirst(conjunction, column) ==
  /\ CanCall("andOrFirst", 0) /\ Len(qb.arrs) = 0
  /\ qb' = Called(createConditions(qb, column, conjunction, Null, 0), "andOrFirst", 0)
  /\ UNCHANGED <<repoVars, ins, app, rv>>

\* createCondition called with any conjunction and any conditions argument:
\* null or one of the arrays of the statement.
condition(column, conjunction, conditions, comparator, compareValue) ==
  /\ qb.op # "createCondition" /\ conditions <= Len(qb.arrs)
  /\ qb' = [createCondition(qb, column, conjunction, conditions, comparator, compareValue)
             EXCEPT !.op = "createCondition", !.on = 0, !.n = Len(qb.params)]
  /\ UNCHANGED <<repoVars, ins, app, rv>>

\* ---- INSERT (columns / values / build) ----
InsertColumns == {"reference", "due"}
InsertValues == {"v1", "v2"}
\* The declared column lists: the columns of the table in some order, no repeats.
ColumnLists ==
  {<<c>> : c \in InsertColumns}
    \cup {<<c, d>> : <<c, d>> \in {x \in InsertColumns \X InsertColumns : x[1] # x[2]}}
InsertRows == [InsertColumns -> InsertValues]
RowLists == UNION {[1..n -> InsertRows] : n \in 1..MaxInsRows}

NoInsert == [step |-> "insert", columns |-> <<>>, rows |-> <<>>,
             query |-> <<>>, queryParams |-> <<>>]

\* The values of the rows, row after row, each in the declared column order.
RECURSIVE rowMajor(_, _)
rowMajor(columns, rows) ==
  IF rows = <<>> THEN <<>>
  ELSE [j \in 1..Len(columns) |-> Head(rows)[columns[j]]] \o rowMajor(columns, Tail(rows))

\* A build that flattens the rows column-major.
insertBuild_columnMajor(columns, rows) ==
  [query |-> [i \in 1..Len(rows) |-> [j \in 1..Len(columns) |-> "?"]],
   queryParams |-> [p \in 1..(Len(rows) * Len(columns)) |->
                      rows[((p - 1) % Len(rows)) + 1][columns[((p - 1) \div Len(rows)) + 1]]]]

\* build(): one group of placeholders per row, one placeholder per declared
\* column, and the parameters.
insertBuild(columns, rows) ==
  [query |-> [i \in 1..Len(rows) |-> [j \in 1..Len(columns) |-> "?"]],
   queryParams |-> rowMajor(columns, rows)]

\* insert(table).columns(...)
insertColumns(cs) ==
  /\ ins.step = "insert"
  /\ ins' = [ins EXCEPT !.step = "columns", !.columns = cs]
  /\ UNCHANGED <<repoVars, qb, app, rv>>

\* .values(...rows)
insertValues(rs) ==
  /\ ins.step = "columns"
  /\ ins' = [ins EXCEPT !.step = "values", !.rows = rs]
  /\ UNCHANGED <<repoVars, qb, app, rv>>

\* .build()
build ==
  /\ ins.step = "values"
  /\ LET b == insertBuild(ins.columns, ins.rows)
     IN ins' = [ins EXCEPT !.step = "built", !.query = b.query, !.queryParams = b.queryParams]
  /\ UNCHANGED <<repoVars, qb, app, rv>>

\* ---- the review session (ReviewContext.tsx, the provider at lines 57-237) ----
Items == 1..MaxItems
\* No item (null).
NoItem == 0
\* What an item is: isReviewCard / isReviewSnippet, else an article.
Kind(i) == CASE i = 1 -> "card" [] i = 2 -> "snippet" [] OTHER -> "article"

NoFetch == [pc |-> "none", item |-> NoItem]
NoOp == [pc |-> "idle", fn |-> "none", item |-> NoItem]
\* What the last step did: a: the function; item: its item; ok: it did not
\* throw; raised: it threw to its caller; req: it called getNext; lag: the
\* items handled successfully so far that seenIds lacked when it did; all:
\* what getDue returned; picked: nextItem.
NoLast ==
  [a |-> "none", item |-> NoItem, ok |-> TRUE, raised |-> FALSE, req |-> FALSE,
   lag |-> {}, all |-> <<>>, picked |-> NoItem]

\* The provider before it is mounted.  seenIds, currentItem: the fields of
\* the review view; showAnswer: the provider's state; due: the items
\* the review manager holds as due; shown: the items the query has
\* returned, which the components can hand to the handlers; fetches: the runs
\* of queryFn by request number; ops: the handlers awaiting the review
\* manager; acted: the items graded, reviewed, dismissed or skipped with
\* success.
NoReview ==
  [mounted |-> FALSE, seenIds |-> {}, currentItem |-> NoItem, showAnswer |-> FALSE,
   due |-> Items, shown |-> {}, fetches |-> [f \in 1..MaxRequests |-> NoFetch], reqs |-> 0,
   ops |-> [o \in 1..MaxOps |-> NoOp], acted |-> {}, last |-> NoLast]

Did(r, a, item, ok) == [r EXCEPT !.last = [NoLast EXCEPT !.a = a, !.item = item, !.ok = ok]]

\* What getDue can return: the due items in some order, MaxFetch at most.
DueResults(due) ==
  LET n == IF Cardinality(due) < MaxFetch THEN Cardinality(due) ELSE MaxFetch
  IN {all \in [1..n -> due] : \A i, j \in 1..n : all[i] = all[j] => i = j}

\* The first item of result.all, whether seen or not.
nextItem_unfiltered(all, seenIds) ==
  IF all = <<>> THEN NoItem ELSE all[1]

\* result.all.filter(({ data }) => !seenIds.has(data.id))[0] ?? null
nextItem(all, seenIds) ==
  LET unseen == SelectSeq(all, LAMBDA i : i \notin seenIds)
  IN IF unseen = <<>> THEN NoItem ELSE unseen[1]

\* getNext: invalidateQueries, which runs queryFn again, up to its first await.
getNext(r) ==
  [r EXCEPT !.reqs = @ + 1, !.fetches[r.reqs + 1] = [pc |-> "getDue", item |-> NoItem],
            !.last.req = TRUE, !.last.lag = r.acted \ r.seenIds]

\* The end of every handler: seenIds.add(id), then getNext().
addThenNext(r, id) == getNext([r EXCEPT !.seenIds = @ \cup {id}])

\* The end of queryFn: setShowAnswer(false), reviewView.currentItem, return.
queryFnReturn(r, f, n) ==
  [r EXCEPT !.showAnswer = FALSE, !.currentItem = n,
            !.shown = IF n = NoItem THEN @ ELSE @ \cup {n},
            !.fetches[f] = [pc |-> "done", item |-> n]]

Review(r) == rv' = r /\ UNCHANGED <<repoVars, qb, ins, app>>

\* The provider is mounted: useQuery runs queryFn for the first time.
mount ==
  /\ ~rv.mounted
  /\ Review(getNext(Did([rv EXCEPT !.mounted = TRUE], "mount", NoItem, TRUE)))

\* A component calls getNext of the context.
getNextCall ==
  /\ rv.mounted /\ rv.reqs < MaxRequests
  /\ Review(getNext(Did(rv, "getNext", NoItem, TRUE)))

\* A component shows the answer.
setShowAnswer ==
  /\ rv.mounted /\ ~rv.showAnswer
  /\ Review(Did([rv EXCEPT !.showAnswer = TRUE], "setShowAnswer", NoItem, TRUE))

\* queryFn after getDue has settled with result.all: the filter, then
\* updateDelimiters if the item is a card, else the return.
queryFn(f, all) ==
  /\ rv.fetches[f].pc = "getDue" /\ all \in DueResults(rv.due)
  /\ LET n == nextItem(all, rv.seenIds)
         r == [Did(rv, "queryFn", n, TRUE) EXCEPT !.last.all = all, !.last.picked = n]
     IN Review(IF n # NoItem /\ Kind(n) = "card"
                 THEN [r EXCEPT !.fetches[f] = [pc |-> "delims", item |-> n]]
                 ELSE queryFnReturn(r, f, n))

\* getDue rejects: queryFn rejects.
getDueFail(f) ==
  /\ rv.fetches[f].pc = "getDue"
  /\ Review([Did(rv, "getDue", NoItem, FALSE)
               EXCEPT !.fetches[f].pc = "failed", !.last.raised = TRUE])

\* updateDelimiters settles: queryFn returns the card, or rejects if it threw.
updateDelimiters(f, ok) ==
  /\ rv.fetches[f].pc = "delims"
  /\ LET n == rv.fetches[f].item
         r == Did(rv, "updateDelimiters", n, ok)
     IN Review(IF ok THEN queryFnReturn(r, f, n)
                     ELSE [r EXCEPT !.fetches[f].pc = "failed", !.last.raised = TRUE])

\* A handler up to its await of the review manager.
Awaits(o, fn, item) ==
  /\ rv.mounted /\ item \in rv.shown
  /\ rv.ops[o].pc = "idle" /\ \A x \in 1..(o - 1) : rv.ops[x].pc # "idle"
  /\ Review(Did([rv EXCEPT !.ops[o] = [pc |-> "await", fn |-> fn, item |-> item]],
                fn, item, TRUE))

reviewArticle(o, article) == Kind(article) = "article" /\ Awaits(o, "reviewArticle", article)
reviewSnippet(o, snippet) == Kind(snippet) = "snippet" /\ Awaits(o, "reviewSnippet", snippet)
gradeCard(o, card) == Kind(card) = "card" /\ Awaits(o, "gradeCard", card)
\* dismissCard, dismissSnippet or dismissArticle by the kind of the item.
dismissItem(o, item) ==
  /\ Kind(item) \in {"card", "snippet", "article"}
  /\ Awaits(o, "dismissItem", item)

\* The review manager's call settles.  Resolved: the handler adds the id and
\* calls getNext; the item is still due afterwards or not.  Rejected:
\* reviewArticle and reviewSnippet log the error, gradeCard and dismissItem
\* reject; none of them adds the id or calls getNext.
settle(o, ok, stays) ==
  /\ rv.ops[o].pc = "await"
  /\ LET fn == rv.ops[o].fn
         item == rv.ops[o].item
         r == Did([rv EXCEPT !.ops[o] = NoOp], fn, item, ok)
     IN IF ok
          THEN /\ rv.reqs < MaxRequests
               /\ Review(addThenNext([r EXCEPT !.acted = @ \cup {item},
                                               !.due = IF stays THEN @ ELSE @ \ {item}],
                                      item))
          ELSE /\ stays
               /\ Review([r EXCEPT !.last.raised = fn \in {"gradeCard", "dismissItem"}])

\* skipItem(item)
skipItem(item) ==
  /\ rv.mounted /\ item \in rv.shown /\ rv.reqs < MaxRequests
  /\ Review(addThenNext([Did(rv, "skipItem", item, TRUE) EXCEPT !.acted = @ \cup {item}], item))

InitDisks ==
  {[folder |-> FALSE, file |-> NoFile, by |-> InitBy],
   [folder |-> TRUE, file |-> NoFile, by |-> InitBy],
   [folder |-> TRUE, file |-> Junk, by |-> InitBy],
   [folder |-> TRUE, file |-> [magic |-> "sqlite", schema |-> TRUE, rows |-> {}], by |-> InitBy],
   [folder |-> TRUE, file |-> [magic |-> "sqlite", schema |-> FALSE, rows |-> {}], by |-> InitBy]}

RepoInit ==
  /\ repo = [db |-> NoDb, isSaving |-> FALSE, sql |-> FALSE, made |-> 0, seen |-> -1,
             setter |-> "none", boots |-> 0, ddl |-> 0, ddlBy |-> {}]
  /\ registered = FALSE
  /\ returned = FALSE
  /\ disk \in InitDisks
  /\ tasks = [x \in Tasks |-> Idle]
  /\ notes = [self |-> 0, ext |-> 0]
  /\ calls = 0 /\ exts = 0 /\ handled = 0 /\ faults = 0
  /\ ev = NoEv

Init == RepoInit /\ qb = NewQuery /\ ins = NoInsert /\ rv = NoReview /\ app = NoCall

Next ==
  \/ start
  \/ \E self \in Tasks : loadWasm(self)
  \/ \E self \in Tasks : readBinary(self)
  \/ \E self \in Tasks : reloadDbResume(self)
  \/ \E self \in Tasks : createFolder(self)
  \/ \E self \in Tasks : writeBinary(self)
  \/ \E self \in Tasks : writeReject(self)
  \/ \E self \in Tasks : saveResume(self)
  \/ \E c \in Callers, s \in Stmts : query(c, s)
  \/ \E c \in Callers, s \in Stmts : mutate(c, s)
  \/ \E h \in Handlers, n \in Notifications : handleFileChange(h, n)
  \/ \E b \in ExtImages : externalModify(b)
  \/ externalDelete

Spec == Init /\ [][Next]_vars

\* start and mutate calls whose callers do not await one another, with no
\* notification delivered and no outside change to the file.
NextOverlap ==
  \/ start
  \/ \E self \in Tasks : loadWasm(self)
  \/ \E self \in Tasks : readBinary(self)
  \/ \E self \in Tasks : reloadDbResume(self)
  \/ \E self \in Tasks : createFolder(self)
  \/ \E self \in Tasks : writeBinary(self)
  \/ \E self \in Tasks : saveResume(self)
  \/ \E c \in Overlapping, s \in Stmts : mutate(c, s)

SpecOverlap == Init /\ [][NextOverlap]_vars

\* Every promise of the host and of the runtime bootstrap settles: a call
\* that awaits one is resumed.
Settles(self) ==
  \/ loadWasm(self) \/ readBinary(self) \/ reloadDbResume(self)
  \/ createFolder(self) \/ writeBinary(self) \/ writeReject(self) \/ saveResume(self)

\* The calls that save (start, mutate) and the outside changes to the file
\* that their saves may meet; no notification is delivered.
NextSave ==
  \/ start
  \/ \E self \in Tasks : loadWasm(self)
  \/ \E self \in Tasks : readBinary(self)
  \/ \E self \in Tasks : reloadDbResume(self)
  \/ \E self \in Tasks : createFolder(self)
  \/ \E self \in Tasks : writeBinary(self)
  \/ \E self \in Tasks : writeReject(self)
  \/ \E self \in Tasks : saveResume(self)
  \/ \E c \in Callers, s \in Stmts : mutate(c, s)
  \/ \E b \in ExtImages : externalModify(b)
  \/ externalDelete

SpecSave == Init /\ [][NextSave]_vars /\ \A self \in Tasks : WF_vars(Settles(self))

\* The repository before start, on an empty vault.
RepoIdle == RepoInit /\ ~disk.folder

\* One statement under construction, by any sequence of builder calls.
InitQuery == RepoIdle /\ qb = NewQuery /\ ins = NoInsert /\ rv = NoReview /\ app = NoCall

NextQuery ==
  \/ \E column \in Columns : where(column)
  \/ \E o \in 1..MaxBuild, comparator \in Comparators, v \in CompareValues :
       compare(o, comparator, v)
  \/ \E o \in 1..MaxBuild, conjunction \in {"AND", "OR"}, column \in Columns :
       andOr(o, conjunction, column)
  \/ \E conjunction \in {"AND", "OR"}, column \in Columns : andOrFirst(conjunction, column)

SpecQuery == InitQuery /\ [][NextQuery]_vars

\* The statements with no, one or two conditions, as where(c).cmp(v) and
\* where(c).cmp(v).and/or(c2).cmp2(v2) leave them.
Built1 ==
  {createCondition(createConditions(NewQuery, c, "WHERE", Null, 1), c, "WHERE", Null, cmp, v) :
     c \in Columns, cmp \in Comparators, v \in CompareValues}
Built2 ==
  UNION {{createCondition(createConditions(q, c, conj, 1, 0), c, conj, 1, cmp, v) :
            c \in Columns, cmp \in Comparators, v \in CompareValues, conj \in {"AND", "OR"}} :
         q \in Built1}

\* One call of createCondition on a statement with zero to two conditions.
InitCondition ==
  RepoIdle /\ qb \in {NewQuery} \cup Built1 \cup Built2 /\ ins = NoInsert /\ rv = NoReview /\ app = NoCall

NextCondition ==
  \E column \in Columns, conjunction \in {"WHERE", "AND", "OR"}, conditions \in {Null, 1, 2},
     comparator \in Comparators, v \in CompareValues :
    condition(column, conjunction, conditions, comparator, v)

SpecCondition == InitCondition /\ [][NextCondition]_vars

\* One INSERT statement: columns, values, build.
NextInsert ==
  \/ \E cs \in ColumnLists : insertColumns(cs)
  \/ \E rs \in RowLists : insertValues(rs)
  \/ build

SpecInsert == InitQuery /\ [][NextInsert]_vars

\* One review session.
InitReview == RepoIdle /\ qb = NewQuery /\ ins = NoInsert /\ rv = NoReview /\ app = NoCall

NextReview ==
  \/ mount
  \/ getNextCall
  \/ setShowAnswer
  \/ \E f \in 1..MaxRequests, all \in UNION {[1..n -> Items] : n \in 0..MaxFetch} : queryFn(f, all)
  \/ \E f \in 1..MaxRequests : getDueFail(f)
  \/ \E f \in 1..MaxRequests, ok \in BOOLEAN : updateDelimiters(f, ok)
  \/ \E o \in 1..MaxOps, i \in Items : reviewArticle(o, i)
  \/ \E o \in 1..MaxOps, i \in Items : reviewSnippet(o, i)
  \/ \E o \in 1..MaxOps, i \in Items : gradeCard(o, i)
  \/ \E o \in 1..MaxOps, i \in Items : dismissItem(o, i)
  \/ \E o \in 1..MaxOps, ok \in BOOLEAN, stays \in BOOLEAN : settle(o, ok, stays)
  \/ \E i \in Items : skipItem(i)

SpecReview == InitReview /\ [][NextReview]_vars

\* coerceParams applied to any list of parameters.
InitCoerce ==
  /\ RepoIdle /\ qb = NewQuery /\ ins = NoInsert /\ rv = NoReview
  /\ app \in {[NoCall EXCEPT !.fn = "coerceParams", !.args = p] : p \in ParamLists}

NextCoerce == coerceParamsCall

SpecCoerce == InitCoerce /\ [][NextCoerce]_vars

\* formatResult applied to any result set.
InitFormat ==
  /\ RepoIdle /\ qb = NewQuery /\ ins = NoInsert /\ rv = NoReview
  /\ app \in {[NoCall EXCEPT !.fn = "formatResult", !.args = r] : r \in Results}

NextFormat == formatResultCall

SpecFormat == InitFormat /\ [][NextFormat]_vars

\* ---- claims ----
AllIdle == \A x \in Tasks : tasks[x].pc = "idle"
MutateReturned == ev.a = "saveResume" /\ ev.root = "mutate" /\ ev.done = "ok"

\* C1: when mutate returns without raising (nothing else having run since it
\* was called, and nothing having failed), the file holds exactly the byte
\* image of the live engine.
C1_DiskEqualsEngineAfterMutate ==
  (MutateReturned /\ ev.quiet /\ faults = 0) => disk.file = Export(repo.db)

\* C2: after mutate's save has set the guard, the first notification for the
\* database path is not followed by a reload: the engine instance stays and
\* the guard is cleared; the second one, with the guard cleared, starts a
\* reload, and a reload replaces the engine by a new instance built from the
\* bytes read from the file.
C2_SelfWriteSuppression ==
  [][ /\ (ev'.a = "mutate" /\ ev'.sfail # "nodb") =>
           (repo'.isSaving /\ repo'.seen = 0 /\ repo'.setter = "mutate")
      /\ (ev'.a = "handleFileChange" /\ ev'.note \in {"self", "ext"} /\ repo.setter = "mutate") =>
           /\ repo.seen = 0 =>
                (ev'.reload = "skipped" /\ repo'.db = repo.db /\ ~repo'.isSaving
                   /\ tasks'[ev'.t].pc = "idle")
           /\ repo.seen = 1 =>
                (~repo.isSaving /\ ev'.reload = "started" /\ tasks'[ev'.t].pc \in {"wasm", "read"})
      /\ (ev'.a = "reloadDbResume" /\ ev'.root = "handler") =>
           IF ValidImage(ev'.from)
             THEN repo'.db.id > repo.made /\ Export(repo'.db) = ev'.from
             ELSE repo'.db = repo.db ]_vars
C2_Witness ==
  /\ ev.a = "reloadDbResume" /\ ev.root = "handler" /\ ev.reload = "done"
  /\ repo.setter = "mutate" /\ repo.seen = 2

\* C3: when every save has completed its write without failure and no
\* notification was delivered (or is pending) for the last save's write, a
\* notification caused by an external modification of the database file
\* starts a reload.
C3_ExternalChangeReloads ==
  [][ (ev'.a = "handleFileChange" /\ ev'.note = "ext" /\ AllIdle /\ faults = 0
         /\ disk.by.kind = "ext" /\ repo.seen = 0 /\ notes.self = 0)
        => ev'.reload = "started" ]_vars

C5_StartSurfacesFailures ==
  (ev.root \in {"startInit", "startLoad"} /\ ev.done = "ok") =>
     (ev.cause = "none" /\ repo.db.id # 0 /\ ev.wrote >= 1)

\* C6: when the file exists at start and cannot be loaded, start raises, no
\* engine has been created, start has written nothing and the listener is
\* not registered.
C6_NoFallbackToFreshDb ==
  (ev.root = "startLoad" /\ ev.reload = "failed") =>
     /\ ev.done = "raised"
     /\ repo.db = NoDb /\ repo.made = 0
     /\ ev.wrote = 0 /\ disk.by.kind # "save"
     /\ ~registered /\ ~returned
C6_Witness ==
  /\ ev.root = "startLoad" /\ ev.reload = "failed" /\ ev.cause = "corrupt"
  /\ disk.file = Junk

\* C7: a mutate calls save exactly once, and the image that save exports is
\* the image of the engine after the statement has run, whatever the
\* statement's outcome.
C7_MutateSavesOnceAfterExec ==
  /\ \A c \in Callers : tasks[c].root = "mutate" =>
       (tasks[c].nsave = 1 /\ tasks[c].data = tasks[c].post)
  /\ (ev.root = "mutate" /\ ev.done # "none") => ev.nsave = 1
C7_Witness ==
  \E c \in Callers :
    /\ ev.a = "mutate" /\ ev.t = c /\ ~ev.err
    /\ tasks[c].pc = "write" /\ tasks[c].data.rows # {} /\ disk.file.rows = {}

\* C8: a query leaves the file, the guard and the engine instance as they are.
C8_QueryNeverPersists ==
  [][ ev'.a = "query" =>
        (disk' = disk /\ repo'.isSaving = repo.isSaving /\ repo'.db.id = repo.db.id
           /\ notes' = notes /\ \A x \in Tasks : tasks'[x].pc = tasks[x].pc) ]_vars
C8_Witness ==
  ev.a = "query" /\ ~ev.err /\ repo.db.rows # {} /\ disk.file.rows = {} /\ AllIdle

\* C9: an engine error never leaves execSql: the result is one empty row
\* array, as for a statement without results, and query returns an empty array.
C9_ExecSqlSwallowsErrors ==
  /\ (ev.a = "query" /\ (ev.err \/ ev.empty)) => (ev.done = "ok" /\ ev.ret = <<>>)
  /\ (ev.a = "mutate" /\ (ev.err \/ ev.empty)) =>
       (ev.ret = << <<>> >> /\ (ev.done = "raised" => ev.sfail # "none"))
C9_Witness ==
  ev.a = "query" /\ ev.err /\ repo.db.id # 0 /\ repo.db.schema

\* C10: every failure of save to persist (export, folder creation, file
\* write) is logged by save's catch block and raised to save's caller.
C10_SaveFailuresLoggedAndRaised ==
  ev.sfail \in {"export", "mkdir", "write"} => (ev.slogged /\ ev.sraised)

\* C11: the engine runtime is bootstrapped at most once in the lifetime of a
\* repository, whatever start / mutate / reloads have run (nothing having failed,
\* the file not touched from outside).
C11_BootstrapAtMostOnce ==
  (faults = 0 /\ exts = 0) => repo.boots <= 1

\* C17: whenever a save issues its file write, the self-write guard is true
\* at that moment (nothing having failed).
C17_GuardTrueWhenWriteIssued ==
  [][\A x \in Tasks :
       (tasks[x].pc # "write" /\ tasks'[x].pc = "write" /\ faults' = 0) => repo'.isSaving]_vars

\* C18: the notification of the repository's own write never starts a reload
\* (nothing having failed).
C18_EchoNeverReloads ==
  (ev.a = "handleFileChange" /\ ev.note = "self" /\ faults = 0) => ev.reload # "started"

\* C20: when the reload started by a notification replaces the live engine,
\* the new engine has every row that a mutate added while the reload was in
\* flight (nothing having failed).
C20_ReloadKeepsMutation ==
  (ev.a = "reloadDbResume" /\ ev.root = "handler" /\ ev.reload = "done" /\ faults = 0)
    => ev.during \subseteq repo.db.rows

\* C19: at no time do two saves have a file write pending (nothing having failed).
C19_OneWritePending ==
  faults = 0 => Cardinality({x \in Tasks : tasks[x].pc = "write"}) <= 1

\* C12: after where(c1).cmp(v1) and k and / or steps each completed by a
\* comparator, every call made on the object the call before returned, the
\* conditions carry the placeholders $1..$(k+1) in call order and params is
\* [v1, ..., v(k+1)]; each placeholder is the length of params plus one at
\* the time of its comparator call.
C12_PlaceholdersInCallOrder ==
  (qb.off = 0 /\ qb.op = "compare" /\ qb.err = "none") =>
    LET tr == Flat(qb.arrs[qb.objs[qb.last].arr]) IN
      /\ Len(tr) = Len(qb.hist) /\ Len(qb.params) = Len(qb.hist)
      /\ \A i \in 1..Len(tr) :
           /\ tr[i].ph = i /\ tr[i].ph = qb.hist[i].n + 1
           /\ tr[i].col = qb.hist[i].col /\ tr[i].cmp = qb.hist[i].cmp
           /\ qb.params[i] = qb.hist[i].v

C12_Witness ==
  /\ qb.off = 0 /\ qb.op = "compare" /\ qb.err = "none" /\ Len(qb.hist) = 3
  /\ qb.hist[1].v # qb.hist[2].v
  /\ qb.arrs[1].rest[1].conj = "AND" /\ qb.arrs[1].rest[2].conj = "OR"

\* C13: a comparator of the second where of one builder, called when the
\* first where has its condition, throws; and a comparator of an and / or
\* that has no conditions array throws.
C13_SecondWhereAndOrphanThrow ==
  /\ (qb.op = "compare" /\ qb.objs[qb.on].w >= 2 /\ qb.n >= 1) => qb.err # "none"
  /\ (qb.op = "compare" /\ qb.objs[qb.on].conj \in {"AND", "OR"} /\ qb.objs[qb.on].arr = Null)
       => qb.err # "none"

\* C14: an INSERT built with K declared columns and N rows has N groups of
\* K placeholders, and N*K parameters: the rows' values row after row, each
\* row in the declared column order.
C14_InsertRowMajor ==
  ins.step = "built" =>
    LET K == Len(ins.columns)
        N == Len(ins.rows)
    IN /\ Len(ins.query) = N
       /\ \A i \in 1..N : Len(ins.query[i]) = K /\ \A j \in 1..K : ins.query[i][j] = "?"
       /\ Len(ins.queryParams) = N * K
       /\ \A i \in 1..N, j \in 1..K :
            ins.queryParams[(i - 1) * K + j] = ins.rows[i][ins.columns[j]]

C14_Witness ==
  /\ ins.step = "built" /\ Len(ins.columns) = 2 /\ Len(ins.rows) = 2
  /\ ins.queryParams = <<"v1", "v2", "v1", "v2">>

\* C15: coerceParams returns a list as long as its argument, element i being
\* 1 for true, 0 for false, null for undefined, the string representation
\* for a symbol, and the argument's element itself for a string, a number
\* or null; no element of the result is undefined.
C15_CoercionElementwise ==
  app.done =>
    /\ Len(app.ret) = Len(app.args)
    /\ \A i \in 1..Len(app.args) :
         LET p == app.args[i]
             c == app.ret[i]
         IN /\ p = Val("boolean", "true") => c = Val("number", "1")
            /\ p = Val("boolean", "false") => c = Val("number", "0")
            /\ p = Undefined => c = JsNull
            /\ p.t = "symbol" => c.t = "string" /\ c.v = "Symbol(x)"
            /\ (p.t \in {"string", "number"} \/ p = JsNull) => c = p
            /\ c # Undefined

C15_Witness ==
  /\ app.done /\ app.args = <<Val("boolean", "true"), Undefined>>
  /\ app.ret = <<Val("number", "1"), JsNull>>

\* C16: formatResult gives one row object per entry of values, in the same
\* order; no column is dropped; row i maps a column to the row's cell at the
\* last position that has the column's name.
C16_FormatRowsInOrder ==
  app.done =>
    /\ Len(app.ret) = Len(app.args.values)
    /\ \A i \in 1..Len(app.ret) :
         LET cols == app.args.columns IN
         /\ DOMAIN app.ret[i] = {cols[j] : j \in 1..Len(cols)}
         /\ \A j \in 1..Len(cols) :
              (\A k \in (j + 1)..Len(cols) : cols[k] # cols[j])
                => app.ret[i][cols[j]] = app.args.values[i][j]

C16_Witness ==
  /\ app.done /\ app.args.columns = <<"a", "a">>
  /\ app.args.values = << <<1, 2>>, <<2, 1>> >>
  /\ app.ret = << [a |-> 2], [a |-> 1] >>

\* C21: handling a notification for another path, or one flagged as a
\* deletion, leaves the engine, the self-write guard and the file as they
\* were and starts no reload.
C21_OtherFilesIgnored ==
  [][(ev'.a = "handleFileChange" /\ ev'.note = "other") =>
       /\ repo'.db = repo.db /\ repo'.isSaving = repo.isSaving /\ disk' = disk
       /\ ev'.reload = "ignored" /\ ev'.done = "ok"
       /\ \A x \in Tasks : tasks'[x].pc = tasks[x].pc]_vars

C21_Witness ==
  ev.a = "handleFileChange" /\ ev.note = "other" /\ repo.isSaving /\ repo.db.id # 0

\* C22: when start returns the repository (nothing having failed), the
\* schema DDL has been executed exactly once; and no reload started by a
\* notification executes it.
C22_SchemaOnceDuringStart ==
  /\ (ev.reg /\ faults = 0) => repo.ddl = 1
  /\ "handler" \notin repo.ddlBy

\* C23: when start registers the listener, an engine has been created, the
\* schema DDL has been executed and start's save has issued its write; and
\* no notification is handled before start has finished.
C23_ListenerAfterFirstPersist ==
  /\ ev.reg => (repo.db.id # 0 /\ repo.ddl >= 1 /\ ev.wrote >= 1)
  /\ handled > 0 => (registered /\ tasks[Main].pc = "idle")

\* C27: when mutate's save returns (nothing else having run since mutate was
\* called, and nothing having failed), the live engine holds what it held
\* when save was called.
C27_SaveKeepsEngine ==
  (MutateReturned /\ ev.quiet /\ faults = 0) => Export(repo.db) = ev.pre

\* C29: when a save has failed (export, folder creation, file write) without
\* having written the file, the self-write guard is not set.
C29_FailedSaveClearsGuard ==
  (ev.sfail \in {"export", "mkdir", "write"} /\ ev.sraised /\ ev.wrote = 0 /\ ev.quiet)
    => ~repo.isSaving

\* C24: a call that saves calls initDb from a non-creating save at most
\* once and issues at most two file writes (one when started by the
\* file-absent start, whose save is the creating one); and every call that
\* awaits returns.
C24_SaveTerminates ==
  /\ [](\A x \in Tasks :
         /\ tasks[x].ninit <= 1 /\ tasks[x].wrote <= tasks[x].ninit + 1
         /\ tasks[x].root = "handler" => tasks[x].wrote = 0)
  /\ \A x \in Tasks : (tasks[x].pc # "idle") ~> (tasks[x].pc = "idle")

C24_Witness ==
  \E x \in Tasks : tasks[x].root = "mutate" /\ tasks[x].ninit = 1 /\ tasks[x].wrote = 2

\* C26: no step of a reload started by a notification writes the file,
\* produces a notification, sets or clears the self-write guard, executes
\* the schema DDL or registers a listener, and the cached engine runtime
\* is as it was: the engine instance is the only state it may change.
C26_ReloadWritesNothing ==
  [][(/\ ev'.t \in Handlers /\ faults' = 0
      /\ ev'.a = "handleFileChange" => ev'.reload = "started") =>
       /\ disk' = disk
       /\ notes'.self <= notes.self /\ notes'.ext <= notes.ext
       /\ repo'.isSaving = repo.isSaving /\ repo'.setter = repo.setter
       /\ repo'.ddl = repo.ddl /\ registered' = registered
       /\ repo'.sql = repo.sql
       /\ tasks'[ev'.t].pc \in {"idle", "wasm", "read", "readDone"}
       /\ tasks'[ev'.t].wrote = 0 /\ tasks'[ev'.t].nsave = 0]_vars

\* C28: when a reload started by a notification fails, handleFileChange
\* returns without raising and the engine is the one that was live before.
C28_FailedReloadKeepsEngine ==
  [][(ev'.t \in Handlers /\ ev'.reload = "failed") =>
       /\ ev'.done = "ok" /\ tasks'[ev'.t].pc = "idle"
       /\ repo'.db = repo.db]_vars

C28_Witness ==
  /\ ev.t \in Handlers /\ ev.reload = "failed" /\ ev.cause = "corrupt"
  /\ repo.db.id # 0 /\ repo.db.rows # {}

\* C25: after any sequence of builder calls on one statement, calls on an
\* earlier object included, the conditions reachable from the object the
\* last comparator returned carry exactly the placeholders $1..$m for the m
\* bind parameters, and params[i] is the compare value of the condition
\* that holds $i.
C25_TreeMatchesParamsUnderReuse ==
  (qb.op = "compare" /\ qb.err = "none") =>
    LET tr == Flat(qb.arrs[qb.objs[qb.last].arr]) IN
      /\ Len(tr) = Len(qb.params)
      /\ \A i \in 1..Len(tr) :
           /\ tr[i].ph = i
           /\ tr[i].col = qb.hist[i].col /\ tr[i].cmp = qb.hist[i].cmp
           /\ qb.params[i] = qb.hist[i].v

\* C30: a createCondition call that throws (WHERE given a conditions array,
\* AND / OR given none) leaves params, every conditions array and the
\* objects returned so far as they were before the call.
C30_ThrowLeavesBuilderUnchanged ==
  [][(qb'.op = "createCondition" /\ qb'.err # "none") =>
       /\ qb'.params = qb.params /\ qb'.arrs = qb.arrs
       /\ qb'.objs = qb.objs /\ qb'.last = qb.last]_vars

C30_Witness ==
  /\ qb.op = "createCondition" /\ qb.err = "where"
  /\ Len(qb.params) = 2 /\ Len(qb.arrs[1].rest) = 1

\* C31: in a review session seenIds only grows; every item graded,
\* reviewed, dismissed or skipped with success is in seenIds when its
\* handler ends, and no item handled with success is missing from seenIds
\* when the next item is requested; the item the query function picks is
\* not in seenIds when it is picked.
C31_SeenIdsGate ==
  [][/\ rv.seenIds \subseteq rv'.seenIds
     /\ rv'.acted \subseteq rv'.seenIds
     /\ rv'.last.req =>
           /\ rv'.last.lag = {}
           /\ rv'.last.item # NoItem => rv'.last.item \in rv'.seenIds
     /\ (rv'.last.a = "queryFn" /\ rv'.last.picked # NoItem) =>
           /\ rv'.last.picked \notin rv'.seenIds
           /\ rv'.last.picked \notin rv.seenIds]_vars

C31_Witness ==
  /\ rv.last.a = "queryFn" /\ rv.last.picked # NoItem
  /\ rv.last.all[1] \in rv.acted /\ rv.last.all[1] \in rv.seenIds
  /\ rv.last.all[1] \in rv.due /\ rv.fetches[rv.reqs].pc = "done"

====
